---- MODULE Spec2Model ----
(***************************************************************************)
(* The supervisor pipeline (classify -> route -> assign) and the swarm     *)
(* pipeline (fan-out -> join -> consensus) of the supervisor/swarm         *)
(* scripts, in four variants:                                              *)
(*   "sync"   src/langgraph-supervisor-swarm.py  (LangGraph, sequential)   *)
(*   "async"  src/async-supervisor-swarm.py      (LangGraph, asyncio)      *)
(*   "simple" src/supervisor-swarm-simple.py     (LangGraph, sequential)   *)
(*   "mock"   src/test-supervisor-swarm.py       (SimpleGraph, MockModel)  *)
(* Texts (prompts, replies, placeholders) are records; the external chat   *)
(* model and the search tool are nondeterministic: a call returns one of a *)
(* bounded set of replies or raises.                                       *)
(*                                                                         *)
(* Three further state machines of the repository have their own           *)
(* variables and specifications:                                           *)
(*   ReActSpec  the think/act/finish graph of                              *)
(*              src/_examples_langgraph/react_stategraph_react.py and      *)
(*              src/planner-test/async-agent.py                            *)
(*   FlowSpec   the outline -> checker -> story flow of src/flow-agent.py  *)
(*   KeysSpec   the result keys written by the fan-out stage and read by   *)
(*              the consensus stage of each swarm file, the class-based    *)
(*              src/supervisor-swarm-demo.py included                      *)
(* Under each specification the variables of the other machines keep       *)
(* their initial values.                                                   *)
(***************************************************************************)
EXTENDS Integers, Sequences, FiniteSets, TLC

VARIABLES variant, pipeline, modelImpl, reqNo, draw, hung, pc, state, fan,
          obs, prev,
          rvariant, rinv, rpc, rstate, robs,
          fpc, flocals, fcalls,
          kfile, kpc, kresults, kprompt

\* The supervisor/swarm scripts.
swarmVars == <<variant, pipeline, modelImpl, reqNo, draw, hung, pc, state, fan,
               obs, prev>>
\* The ReAct graphs.
reactVars == <<rvariant, rinv, rpc, rstate, robs>>
\* The story flow.
flowVars == <<fpc, flocals, fcalls>>

\* The fan-out and consensus stages of the five swarm files, side by side.
keyVars == <<kfile, kpc, kresults, kprompt>>

vars == <<swarmVars, reactVars, flowVars, keyVars>>

\* ------------------------------------------------------------------ bounds
\* Requests served one after another on the same compiled graph.
MaxRequests == 2
\* Distinct replies the external chat model may give to one prompt.
MaxTok == 1
\* Requests per graph when progress is checked (whether a run ends does not
\* depend on what the thread held before it).
MaxLiveRequests == 1

\* ------------------------------------------------------------- vocabulary
Variants == {"sync", "async", "simple", "mock"}
LangGraphVariants == {"sync", "async", "simple"}
Pipelines == {"supervisor", "swarm"}

\* The keys of the workers dict, in insertion (iteration) order.
WorkerOrder == <<"research", "analysis", "creative", "technical">>
Workers == {WorkerOrder[i] : i \in 1..Len(WorkerOrder)}

\* The list literal supervisor_route tests membership in.
RouteLabels == {"research", "analysis", "creative", "technical"}

\* The demo's test cases (the first swarm case carries no keyword).
Inputs == {"tc_research", "tc_plain"}

\* str(e) of an exception raised by an external call.
Errors == {"E"}

\* ------------------------------------------------------------------ texts
\* Every text value is a record of one shape.
Text(kind, role, input, ctx, tok, err) ==
    [kind |-> kind, role |-> role, input |-> input, ctx |-> ctx,
     tok |-> tok, err |-> err]

\* '' : the default of dict.get(key, '').
EmptyText == Text("empty", "", "", <<>>, 0, "")

\* A prompt: an f-string template (role) filled with the user input and,
\* where the template has such a slot, further context.
Prompt(role, input, ctx) == Text("prompt", role, input, ctx, 0, "")

\* response.content of the chat model's tok-th possible reply to a prompt.
Reply(prompt, tok) ==
    Text("reply", prompt.role, prompt.input, prompt.ctx, tok, "")

\* What the search tool returns for a query.
SearchResult(query) == Text("search", "search", query, <<>>, 0, "")

\* f"<prefix>: {str(e)}" : a placeholder naming the failure; by tells the
\* prefixes apart (the worker's own, or the fan-out's).
Placeholder(by, err) == Text("placeholder", by, "", <<>>, 0, err)

\* The fixed apology of the assign stage's else branch.
Apology == Text("literal", "apology", "", <<>>, 0, "")

\* A template the mock variant returns without calling the model.
Template(role, input, ctx) == Text("template", role, input, ctx, 0, "")

IsPlaceholder(t) == t.kind = "placeholder"

\* ------------------------------------------------- classifier reply texts
\* A raw reply is a sequence of tokens; " " is whitespace, an upper-case
\* token is the upper-case spelling of a word.
Upper == [research |-> "RESEARCH", analysis |-> "ANALYSIS",
          creative |-> "CREATIVE", technical |-> "TECHNICAL"]

RawReplies ==
    {<<w>> : w \in Workers} \cup
    { <<" ", "ANALYSIS", " ">>, <<"analysis", ".">>, <<"unknown">>,
      <<"it", " ", "is", " ", "research">> }

IsSpace(tok) == tok = " "

RECURSIVE LStrip(_)
LStrip(s) == IF s # <<>> /\ IsSpace(Head(s)) THEN LStrip(Tail(s)) ELSE s

RECURSIVE RStrip(_)
RStrip(s) ==
    IF s # <<>> /\ IsSpace(s[Len(s)]) THEN RStrip(SubSeq(s, 1, Len(s) - 1))
    ELSE s

\* str.strip()
Strip(s) == RStrip(LStrip(s))

LowerTok(tok) ==
    IF \E w \in DOMAIN Upper : Upper[w] = tok
    THEN CHOOSE w \in DOMAIN Upper : Upper[w] = tok
    ELSE tok

\* str.lower()
Lower(s) == [i \in 1..Len(s) |-> LowerTok(s[i])]

RECURSIVE Concat(_)
Concat(s) == IF s = <<>> THEN "" ELSE Head(s) \o Concat(Tail(s))

\* response.content.strip() : a normalisation that keeps the reply's case.
NormaliseKeepCase(raw) == Concat(Strip(raw))

\* response.content.strip().lower()
Normalise(raw) == Concat(Lower(Strip(raw)))

\* ------------------------------------------------------------ state dicts
\* A TypedDict(total=False): the keys present and their values.
Fields == {"user_input", "task_type", "assigned_worker", "worker_result",
           "parallel_results", "consensus_result", "step", "done"}

EmptyMap == [w \in {} |-> EmptyText]

EmptyState ==
    [keys |-> {},
     v |-> [user_input |-> "", task_type |-> "", assigned_worker |-> "",
            worker_result |-> EmptyText, parallel_results |-> EmptyMap,
            consensus_result |-> EmptyText, step |-> 0, done |-> FALSE]]

\* state.get(key, default)
Get(s, key, default) == IF key \in s.keys THEN s.v[key] ELSE default

\* state.update(writes) / the channel writes of a node's return value
Update(s, writes) ==
    [keys |-> s.keys \cup DOMAIN writes,
     v |-> [f \in DOMAIN s.v |->
               IF f \in DOMAIN writes THEN writes[f] ELSE s.v[f]]]

\* --------------------------------------------------------- external calls
\* One outbound call: it returns (for the chat model, its tok-th reply),
\* raises Exception(err), or was not made.  The chat model answers a prompt
\* with one of MaxTok texts; which one is drawn per request (variable draw),
\* and every prompt of a request is a different prompt, so the replies of
\* one request are pairwise different texts whatever the draw.
Returned(tok) == [st |-> "ok", tok |-> tok, err |-> ""]
Raised(err) == [st |-> "raise", tok |-> 0, err |-> err]
NoCall == [st |-> "nocall", tok |-> 0, err |-> ""]

ChatOutcomes(tok) == {Returned(tok)} \cup {Raised(e) : e \in Errors}
SearchOutcomes == {Returned(0)} \cup {Raised(e) : e \in Errors}

\* The outbound calls of one worker invocation, [search, chat].
Ext(search, chat) == [search |-> search, chat |-> chat]

\* MockSearch.invoke never raises; the mock workers never call the model.
WorkerExts(var, w, tok) ==
    IF var = "mock"
    THEN {Ext(IF w = "research" THEN Returned(0) ELSE NoCall, NoCall)}
    ELSE IF w = "research"
         THEN {Ext(Raised(e), NoCall) : e \in Errors} \cup
              {Ext(Returned(0), c) : c \in ChatOutcomes(tok)}
         ELSE {Ext(NoCall, c) : c \in ChatOutcomes(tok)}

\* --------------------------------------------------------------- MockModel
\* Keywords are named in pinyin: yanjiu, sousuo, fenxi, bijiao, chuangzuo,
\* xie, jishu, biancheng.
InputKeywords == [tc_research |-> {"yanjiu"}, tc_plain |-> {}]

\* The keywords the mock variant's classification template itself contains.
ClassifyTemplateKeywords ==
    {"fenxi", "sousuo", "bijiao", "chuangzuo", "xie", "jishu", "biancheng"}

\* keyword in messages[0]["content"]
Contains(prompt, kw) ==
    \/ kw \in InputKeywords[prompt.input]
    \/ prompt.role = "classify" /\ kw \in ClassifyTemplateKeywords

MockModel(prompt) ==
    IF Contains(prompt, "yanjiu") \/ Contains(prompt, "sousuo")
    THEN <<"research">>
    ELSE IF Contains(prompt, "fenxi") \/ Contains(prompt, "bijiao")
    THEN <<"analysis">>
    ELSE IF Contains(prompt, "chuangzuo") \/ Contains(prompt, "xie")
    THEN <<"creative">>
    ELSE IF Contains(prompt, "jishu") \/ Contains(prompt, "biancheng")
    THEN <<"technical">>
    ELSE <<"analysis">>

\* The classifier call's possible outcomes: [st, raw, err].  The mock
\* variant's module-level model is MockModel, or ("stub") a test double
\* that returns a chosen reply.
ClassifierOutcomes(impl, prompt) ==
    IF impl = "MockModel"
    THEN {[st |-> "ok", raw |-> MockModel(prompt), err |-> ""]}
    ELSE IF impl = "stub"
    THEN {[st |-> "ok", raw |-> r, err |-> ""] : r \in RawReplies}
    ELSE {[st |-> "ok", raw |-> r, err |-> ""] : r \in RawReplies} \cup
         {[st |-> "raise", raw |-> <<>>, err |-> e] : e \in Errors}

\* ----------------------------------------------------------------- workers
\* A call's result: a returned text, or an exception leaving the function.
Ret(val) == [raised |-> FALSE, err |-> "", val |-> val]
Exc(err) == [raised |-> TRUE, err |-> err, val |-> EmptyText]

\* A research worker that asks the model without handing it what the
\* search returned.
WorkerBodySearchDropped(var, w, input, ext) ==
    IF var = "mock"
    THEN Ret(Template(w, input, <<>>))
    ELSE IF w = "research" /\ ext.search.st = "raise"
    THEN Exc(ext.search.err)
    ELSE IF ext.chat.st = "raise"
    THEN Exc(ext.chat.err)
    ELSE Ret(Reply(Prompt(w, input, <<>>), ext.chat.tok))

\* The body of a worker: search first (research only), then the model.
WorkerBody(var, w, input, ext) ==
    IF var = "mock"
    THEN Ret(Template(w, input,
                      IF w = "research" THEN <<SearchResult(input)>> ELSE <<>>))
    ELSE IF w = "research" /\ ext.search.st = "raise"
    THEN Exc(ext.search.err)
    ELSE IF ext.chat.st = "raise"
    THEN Exc(ext.chat.err)
    ELSE Ret(Reply(Prompt(w, input,
                          IF w = "research" THEN <<SearchResult(input)>>
                          ELSE <<>>),
                   ext.chat.tok))

\* Which workers wrap their body in try/except Exception.
WorkerCatches(var, w) ==
    \/ var = "async"
    \/ var = "sync" /\ w = "research"

\* worker_func(user_input)
WorkerCall(var, w, input, ext) ==
    LET r == WorkerBody(var, w, input, ext)
    IN  IF r.raised /\ WorkerCatches(var, w)
        THEN Ret(Placeholder(w, r.err))
        ELSE r

\* --------------------------------------------------------- supervisor nodes
\* A classify stage that returns the label without assigned_worker.
ClassifyWritesLabelOnly(s, raw) ==
    [task_type |-> Normalise(raw), step |-> Get(s, "step", 0) + 1]

\* supervisor_classify / async_supervisor_classify / classify_task
ClassifyWrites(s, raw) ==
    LET task_type == Normalise(raw)
    IN  [task_type |-> task_type,
         assigned_worker |-> task_type,
         step |-> Get(s, "step", 0) + 1]

\* A router that admits every label.
supervisor_routeAnyLabel(s) == "assign"

\* supervisor_route / route_after_classify
supervisor_route(s) ==
    IF Get(s, "task_type", "") \in RouteLabels THEN "assign" ELSE "finish"

\* An edge table that sends the FINISH route back to classify (a retry).
ConditionalEdgeRetry(route) == IF route = "assign" THEN "assign" ELSE "classify"

\* The conditional-edge table of the LangGraph supervisor graphs.
ConditionalEdge(route) == IF route = "assign" THEN "assign" ELSE "END"

\* edges["classify"]["route"] of the mock variant's build_supervisor_graph
SimpleEdgeClassifyRoute == "assign"

\* SimpleGraph.invoke's routing decision after node current_node ran.
SimpleGraphNext(current_node, s) ==
    IF current_node = "classify"
    THEN LET next_node == SimpleEdgeClassifyRoute
         IN  IF next_node = "route" THEN supervisor_route(s) ELSE next_node
    ELSE IF current_node = "parallel" THEN "consensus"
    ELSE "END"

\* The node that runs after classify, or "END".
AfterClassify(var, s) ==
    IF var = "mock" THEN SimpleGraphNext("classify", s)
    ELSE ConditionalEdge(supervisor_route(s))

\* The assign stage reading the class-based demo's key "assigned_agent",
\* which classify never writes: the default worker is always taken.
AssignStageWrongKey(var, s, ext) ==
    LET task_type == Get(s, "assigned_agent", "analysis")
        user_input == Get(s, "user_input", "")
        r == WorkerCall(var, task_type, user_input, ext)
    IN  [raised |-> r.raised, err |-> r.err, called |-> {task_type},
         writes |-> [worker_result |-> r.val, done |-> TRUE]]

\* An assign stage that stores the worker's text inside a frame of its own
\* instead of the text itself.
AssignStageFramed(var, s, ext) ==
    LET task_type == Get(s, "assigned_worker", "analysis")
        user_input == Get(s, "user_input", "")
    IN  IF task_type \in Workers
        THEN LET r == WorkerCall(var, task_type, user_input, ext)
             IN  [raised |-> r.raised, err |-> r.err, called |-> {task_type},
                  writes |-> [worker_result |->
                                  Template("frame", user_input, <<r.val>>),
                              done |-> TRUE]]
        ELSE [raised |-> FALSE, err |-> "", called |-> {},
              writes |-> [worker_result |-> Apology, done |-> TRUE]]

\* supervisor_assign / async_supervisor_assign / assign_worker:
\* [raised, err, writes, called] for the worker outcome ext.
AssignStage(var, s, ext) ==
    LET task_type == Get(s, "assigned_worker", "analysis")
        user_input == Get(s, "user_input", "")
    IN  IF task_type \in Workers
        THEN LET r == WorkerCall(var, task_type, user_input, ext)
             IN  [raised |-> r.raised, err |-> r.err, called |-> {task_type},
                  writes |-> [worker_result |-> r.val, done |-> TRUE]]
        ELSE [raised |-> FALSE, err |-> "", called |-> {},
              writes |-> [worker_result |-> Apology, done |-> TRUE]]

\* The worker outcomes the assign stage can meet in state s.
AssignExts(var, s, tok) ==
    LET task_type == Get(s, "assigned_worker", "analysis")
    IN  IF task_type \in Workers THEN WorkerExts(var, task_type, tok)
        ELSE {Ext(NoCall, NoCall)}

\* -------------------------------------------------------------- swarm nodes
PendingText == Text("pending", "", "", <<>>, 0, "")

\* The exception object gather(return_exceptions=True) hands back for a
\* task that raised.
ExceptionText(err) == Text("exception", "", "", <<>>, 0, err)

Position(w) == CHOOSE i \in 1..Len(WorkerOrder) : WorkerOrder[i] = w

\* The local variables of the fan-out stage: the tasks' progress and the
\* gather list (async), the results dict under construction (sequential).
NoFan ==
    [tasks |-> [w \in Workers |-> "none"],
     gathered |-> [i \in 1..Len(WorkerOrder) |-> PendingText],
     results |-> EmptyMap]

\* The loop with an except clause that stores nothing useful: the failure
\* is swallowed and the key is left with an empty text.
FanoutTrySwallow(var, w, input, ext) ==
    LET r == WorkerCall(var, w, input, ext)
    IN  IF r.raised THEN EmptyText ELSE r.val

\* One iteration of the sequential fan-out loop: try worker_func, except
\* Exception store the fan-out's placeholder.
FanoutTry(var, w, input, ext) ==
    LET r == WorkerCall(var, w, input, ext)
    IN  IF r.raised THEN Placeholder("fanout", r.err) ELSE r.val

\* results[worker_name] = ...
DictSet(d, key, val) ==
    [k \in DOMAIN d \cup {key} |-> IF k = key THEN val ELSE d[k]]

\* A loop that goes back to the first worker whose key holds no successful
\* result, so that a failed worker is invoked again.
NextWorkerRetry(results) ==
    LET open == {i \in 1..Len(WorkerOrder) :
                    \/ WorkerOrder[i] \notin DOMAIN results
                    \/ IsPlaceholder(results[WorkerOrder[i]])}
    IN  WorkerOrder[CHOOSE i \in open : \A j \in open : i <= j]

\* A loop over the workers dict in reverse insertion order.
NextWorkerReversed(results) ==
    WorkerOrder[Len(WorkerOrder) - Cardinality(DOMAIN results)]

\* The worker the sequential loop runs next.
NextWorker(results) == WorkerOrder[Cardinality(DOMAIN results) + 1]

\* What a finished task leaves for gather.
TaskResult(r) == IF r.raised THEN ExceptionText(r.err) ELSE r.val

\* Results collected as they arrive (asyncio.as_completed): each result
\* takes the first free slot.
GatherStoreArrival(gathered, w, val) ==
    LET free == {i \in 1..Len(gathered) : gathered[i].kind = "pending"}
        slot == CHOOSE i \in free : \A j \in free : i <= j
    IN  [gathered EXCEPT ![slot] = val]

\* asyncio.gather keeps each result at the position of its awaitable.
GatherStore(gathered, w, val) == [gathered EXCEPT ![Position(w)] = val]

\* A wait that returns with the first finished task
\* (asyncio.wait(..., return_when=FIRST_COMPLETED)).
GatherFirstCompleted(tasks) == \E w \in Workers : tasks[w] = "done"

\* A wait that gives up after a timeout and returns with whatever has
\* finished (asyncio.wait(tasks, timeout=...)).
GatherWithTimeout(tasks) == TRUE

\* asyncio.gather returns once every awaitable has finished.
GatherDone(tasks) == \A w \in Workers : tasks[w] = "done"

\* zip(worker_names, results) with the isinstance(result, Exception) test
ZipResults(worker_names, gathered) ==
    [w \in {worker_names[i] : i \in 1..Len(worker_names)} |->
        LET result == gathered[CHOOSE i \in 1..Len(worker_names) :
                                   worker_names[i] = w]
        IN  IF result.kind = "exception"
            THEN Placeholder("fanout", result.err)
            ELSE result]

\* The results dict of swarm_parallel (variant "sync") or
\* parallel_processing ("simple") for the workers' outbound-call outcomes
\* exts.
SequentialFanOut(var, input, exts) ==
    [w \in Workers |-> FanoutTry(var, w, input, exts[w])]

\* The parallel_results dict of async_swarm_parallel for the same.
AsyncFanOut(input, exts) ==
    ZipResults(WorkerOrder,
               [i \in 1..Len(WorkerOrder) |->
                   TaskResult(WorkerCall("async", WorkerOrder[i], input,
                                         exts[WorkerOrder[i]]))])

\* A fan-out that returns the step alone and drops the results dict.
ParallelWritesStepOnly(s, parallel_results) ==
    [step |-> Get(s, "step", 0) + 1]

\* A fan-out stage that does not count its step.
ParallelWritesNoStep(s, parallel_results) ==
    [parallel_results |-> parallel_results]

\* The return value of the fan-out stage.
ParallelWrites(s, parallel_results) ==
    [parallel_results |-> parallel_results,
     step |-> Get(s, "step", 0) + 1]

\* The node after the fan-out.
AfterParallel(var, s) ==
    IF var = "mock" THEN SimpleGraphNext("parallel", s) ELSE "consensus"

\* The keys the consensus prompt reads, in template order.
ConsensusKeys == <<"research", "analysis", "creative", "technical">>

\* parallel_results.get(key, '')
MapGet(d, key, default) == IF key \in DOMAIN d THEN d[key] ELSE default

ConsensusPrompt(s) ==
    LET parallel_results == Get(s, "parallel_results", EmptyMap)
        user_input == Get(s, "user_input", "")
    IN  Prompt("consensus", user_input,
               [i \in 1..Len(ConsensusKeys) |->
                   MapGet(parallel_results, ConsensusKeys[i], EmptyText)])

ConsensusExts(var, tok) == IF var = "mock" THEN {NoCall} ELSE ChatOutcomes(tok)

\* A consensus stage that catches the model's exception and returns a
\* placeholder as the answer.
ConsensusStageCatches(var, s, chat) ==
    IF chat.st = "raise"
    THEN [raised |-> FALSE, err |-> "",
          writes |-> [consensus_result |-> Placeholder("consensus", chat.err),
                      done |-> TRUE]]
    ELSE [raised |-> FALSE, err |-> "",
          writes |-> [consensus_result |->
                          IF var = "mock"
                          THEN Template("consensus", Get(s, "user_input", ""), <<>>)
                          ELSE Reply(ConsensusPrompt(s), chat.tok),
                      done |-> TRUE]]

\* swarm_consensus / async_swarm_consensus / build_consensus: [raised, err,
\* writes] for the model call's outcome chat.  The mock variant fills a
\* fixed template and calls nothing.
ConsensusStage(var, s, chat) ==
    IF var = "mock"
    THEN [raised |-> FALSE, err |-> "",
          writes |-> [consensus_result |->
                          Template("consensus", Get(s, "user_input", ""), <<>>),
                      done |-> TRUE]]
    ELSE IF chat.st = "raise"
    THEN [raised |-> TRUE, err |-> chat.err,
          writes |-> [consensus_result |-> EmptyText, done |-> FALSE]]
    ELSE [raised |-> FALSE, err |-> "",
          writes |-> [consensus_result |-> Reply(ConsensusPrompt(s), chat.tok),
                      done |-> TRUE]]

\* ------------------------------------------------------------ graph invoke
\* A caller that does not reset done.
InputStateNoDone(query) == [user_input |-> query, step |-> 0]

\* A caller that does not reset step.
InputStateNoStep(query) == [user_input |-> query, done |-> FALSE]

\* The dict every demo passes to invoke.
InputState(query) == [user_input |-> query, step |-> 0, done |-> FALSE]

\* The state a run starts from: the thread's checkpoint (the LangGraph
\* graphs are compiled with a MemorySaver and every demo reuses one
\* thread_id), or nothing (SimpleGraph copies initial_state).
ThreadLoad(var, s) == IF var = "mock" THEN EmptyState ELSE s

StartNode(pipe) == IF pipe = "supervisor" THEN "classify" ELSE "parallel"

\* ---------------------------------------------------- history of a request
\* What happened while serving the current request (not program state).
NoObs ==
    [input |-> "",
     ran |-> <<>>,
     calls |-> [w \in Workers |-> 0],
     args |-> [w \in {} |-> ""],
     llmCalls |-> [classify |-> 0, consensus |-> 0],
     raised |-> {},
     written |-> {},
     loaded |-> EmptyState,
     routed |-> "",
     failedAt |-> "",
     prWrites |-> 0,
     reordered |-> FALSE,
     saw |-> EmptyMap,
     ext |-> [classify |-> [st |-> "nocall", raw |-> <<>>, err |-> ""],
              workers |-> [w \in {} |-> Ext(NoCall, NoCall)],
              consensus |-> NoCall]]

\* The previous request on this graph: its input, the external replies it
\* received and the state it returned.
NoPrev == [valid |-> FALSE, input |-> "", ext |-> NoObs.ext, out |-> EmptyState]

Ran(stage) == \E i \in 1..Len(obs.ran) : obs.ran[i] = stage

ExtRaised(ext) == ext.search.st = "raise" \/ ext.chat.st = "raise"

\* The history after a node's writes were applied.
Wrote(o, writes) ==
    [o EXCEPT !.written = @ \cup DOMAIN writes,
              !.prWrites = IF "parallel_results" \in DOMAIN writes
                           THEN @ + 1 ELSE @]

Bump(calls, ws) == [w \in Workers |-> IF w \in ws THEN calls[w] + 1 ELSE calls[w]]

\* ------------------------------------------------------------ ReAct graphs
\* Two scripts build the same input -> think -> act / finish graph:
\*   "stategraph"  src/_examples_langgraph/react_stategraph_react.py
\*   "planner"     src/planner-test/async-agent.py
\* A model reply is a sequence of tokens, as the classifier replies are; a
\* token in braces stands for the JSON text of one object.
ReActVariants == {"stategraph", "planner"}

\* Invocations of the compiled graph on one thread_id.
MaxInvocations == 2

\* TOOLS / TOOL : the whitelist table {"tavily_search": search}.
TOOLS == {"tavily_search"}

\* The literal in the edge after act: state.get("step", 0) < 3.
StepLimit == 3

\* The user's question of one round.
Questions == {<<"question">>}

\* A value of model_action: a dict (dict.get reads an absent key as None,
\* here "" or the empty text) or a value of another type.
ActionDict(type, tool, answer) ==
    [dict |-> TRUE, type |-> type, tool |-> tool, answer |-> answer]
NotADict == [dict |-> FALSE, type |-> "", tool |-> "", answer |-> <<>>]

\* {} : the default of state.get("model_action", {}).
EmptyAction == ActionDict("", "", <<>>)

\* Texts that are valid JSON: the two shapes the system prompt asks for, and
\* shapes it does not ask for.
JsonTexts ==
    {"{tool:tavily_search}", "{tool:calculator}", "{final:A}", "{final:}",
     "{plan}", "42"}

JsonValue(tok) ==
    CASE tok = "{tool:tavily_search}" ->
             ActionDict("tool", "tavily_search", <<>>)
      [] tok = "{tool:calculator}" -> ActionDict("tool", "calculator", <<>>)
      [] tok = "{final:A}" -> ActionDict("final", "", <<"A">>)
      [] tok = "{final:}" -> ActionDict("final", "", <<>>)
      [] tok = "{plan}" -> ActionDict("plan", "", <<>>)
      [] tok = "42" -> NotADict

\* json.loads(content): the parsed value, or an exception for a text that
\* is not one JSON document (the empty text included).
json_loads(content) ==
    IF Len(content) = 1 /\ content[1] \in JsonTexts
    THEN [ok |-> TRUE, val |-> JsonValue(content[1])]
    ELSE [ok |-> FALSE, val |-> EmptyAction]

\* result.content of a llm.invoke that returns.
ReActReplies ==
    { <<"{tool:tavily_search}">>, <<"{tool:calculator}">>,
      <<" ", "{final:A}", " ">>, <<"{final:}">>, <<"{plan}">>,
      <<"plain", " ", "text">>, <<" ">>, <<"42">> }

\* .content of the model call made by the finish node.
FinishReplies == { <<"summary">>, <<" ", "{final:A}", " ">> }

\* An outbound call of the ReAct graph returns a value or raises.
CallOk(val) == [st |-> "ok", val |-> val]
CallRaises == [st |-> "raise", val |-> <<>>]
ThinkOutcomes == {CallOk(r) : r \in ReActReplies} \cup {CallRaises}
FinishOutcomes == {CallOk(r) : r \in FinishReplies} \cup {CallRaises}

\* tool.invoke(...): the observation, which names the invocation and the
\* act step that obtained it (two searches do not return the same object).
ToolResult(inv, n) == [text |-> <<"result">>, inv |-> inv, n |-> n]
\* None : the default of state.get("last_tool_result").
NoResult == [text |-> <<>>, inv |-> 0, n |-> 0]

HumanMessage(content) == [kind |-> "human", content |-> content]
AIMessage(content) == [kind |-> "ai", content |-> content]
ToolMessage(content) == [kind |-> "tool", content |-> content]

\* The channels of ReActState / AgentState.  Every read in the nodes is a
\* state.get with a default, so an unset channel is held as its default.
ReActEmpty ==
    [messages |-> <<>>, step |-> 0, done |-> FALSE,
     model_action |-> EmptyAction, last_tool_result |-> NoResult,
     user_input |-> <<>>]

\* agent.invoke({"messages": [HumanMessage(q)]}, config) and
\* agent.invoke({"user_input": q}, config): the input is written over the
\* thread's checkpoint, channel by channel (no channel has a reducer).
ReActInput(var, st, q) ==
    IF var = "stategraph"
    THEN [st EXCEPT !.messages = <<HumanMessage(q)>>]
    ELSE [st EXCEPT !.user_input = q]

\* def node_input
node_input(var, st) ==
    [st EXCEPT !.messages = IF var = "planner"
                            THEN Append(@, HumanMessage(st.user_input))
                            ELSE @,
               !.step = 0,
               !.done = FALSE]

\* last_obs = state.get("last_tool_result"); if last_obs: ...
ThinkInjects(var, st) ==
    var = "stategraph" /\ st.last_tool_result.text # <<>>

\* The message list the think node turns into the model prompt.
ThinkMessages(var, st) ==
    IF ThinkInjects(var, st)
    THEN Append(st.messages,
                AIMessage(<<"(observation)">> \o st.last_tool_result.text))
    ELSE st.messages

\* try: action = json.loads(content)
\* except Exception: action = {"type": "final", "answer": content}
ParseAction(content) ==
    LET r == json_loads(content)
    IN  IF r.ok THEN r.val ELSE ActionDict("final", "", content)

\* def node_think, given the reply of its model call.
node_think(var, st, reply) ==
    IF st.done THEN st
    ELSE LET content == Strip(reply)
         IN  [st EXCEPT !.messages = Append(ThinkMessages(var, st),
                                            AIMessage(content)),
                        !.model_action = ParseAction(content)]

\* def route / def router: the branch after think.  action.get on a value
\* that is not a dict raises AttributeError.
route(st) ==
    LET action == st.model_action
    IN  IF ~action.dict THEN "AttributeError"
        ELSE IF action.type = "tool" /\ action.tool \in TOOLS THEN "act"
        ELSE "finish"

\* tool = TOOLS[action["tool"]] raises KeyError for a name not in the table.
ActLookupFails(st) == st.model_action.tool \notin TOOLS

\* def node_act, given the tool's result.
node_act(var, st, result) ==
    [st EXCEPT !.messages = Append(@, ToolMessage(result.text)),
               !.step = @ + 1,
               !.last_tool_result = IF var = "stategraph" THEN result ELSE @]

\* def continue_or_finish / the lambda after act.
continue_or_finish(st) == IF st.step < StepLimit THEN "think" ELSE "finish"

\* not (action.get("type") == "final" and action.get("answer"))
FinishCallsModel(st) ==
    ~(st.model_action.type = "final" /\ st.model_action.answer # <<>>)

\* def node_finish, given the reply of its model call (unused when the
\* action carries the answer).
node_finish(st, reply) ==
    LET final_answer == IF FinishCallsModel(st) THEN reply
                        ELSE st.model_action.answer
    IN  [st EXCEPT !.messages = Append(@, AIMessage(final_answer)),
                   !.done = TRUE]

\* What one invocation did.
NoReActObs ==
    [thinks |-> 0, acts |-> 0, finishes |-> 0,
     routed |-> {},          \* <<action, branch>> taken after think
     actedOn |-> {},         \* the actions act ran on
     lookupMissed |-> FALSE, \* act looked up a name absent from the table
     injected |-> {},        \* observations put into a think prompt
     finishOn |-> {},        \* the action finish ran on
     finishCalls |-> 0,      \* model calls made by finish
     viaLimit |-> FALSE,     \* finish reached from the edge after act
     afterAct |-> <<>>,      \* the branch taken after each act
     extRaised |-> FALSE,    \* a model or tool call raised
     error |-> ""]

\* The ReAct scripts before their first invocation, and when not run at all.
ReActNotStarted ==
    /\ rvariant = "none"
    /\ rinv = 0
    /\ rpc = "idle"
    /\ rstate = ReActEmpty
    /\ robs = NoReActObs

\* ---------------------------------------------------------- the story flow
\* src/flow-agent.py: main() awaits three agent runs in turn and parses the
\* second one's output.  An agent's final_output is a sequence of tokens; a
\* token in braces stands for the JSON text of one object.
FlowAgents == <<"story_outline_agent", "outline_checker_agent", "story_agent">>

\* input("..."): what the user asks for.
Prompts == {"p1", "p2"}

\* Distinct texts an agent may produce for one input.
FlowReplies == {"a", "b", "c"}

\* final_output of the outline agent and of the story agent.
AgentOutput(agent, input, k) == <<agent, input, k>>
NoOutput == <<>>

\* final_output of the checker agent: the JSON the instructions ask for,
\* bare or inside a Markdown fence (<fence> is the three-backquote line), and
\* texts that are not that.
CheckerOutputs ==
    { <<"{gq:true,ma:true}">>, <<"{gq:true,ma:false}">>,
      <<"{gq:false,ma:true}">>, <<"{gq:false,ma:false}">>,
      <<"<fence>json", " ", "{gq:true,ma:true}", " ", "<fence>">>,
      <<" ", "<fence>json", " ", "{gq:false,ma:true}", " ", "<fence>", " ">>,
      <<"<fence>json", " ", "{gq:true,ma:false}">>,
      <<"{gq:true,ma:true}", " ", "<fence>">>,
      <<"<fence>", " ", "{gq:true,ma:true}", " ", "<fence>">>,
      <<"{gq:1,ma:yes}">>, <<"{gq:true}">>, <<"looks", " ", "good">> }

\* str.removeprefix of the opening fence with its json tag
RemovePrefix(s) == IF s # <<>> /\ Head(s) = "<fence>json" THEN Tail(s) ELSE s

\* str.removesuffix of the closing fence
RemoveSuffix(s) ==
    IF s # <<>> /\ s[Len(s)] = "<fence>" THEN SubSeq(s, 1, Len(s) - 1) ELSE s

\* final_output.strip().removeprefix(...).removesuffix(...).strip()
Unfence(raw) == Strip(RemoveSuffix(RemovePrefix(Strip(raw))))

\* class OutlineCheckerOutput: two bool fields (a JSON 1 or "yes" is
\* accepted as true).
OutlineCheckerOutput(gq, ma) ==
    [ok |-> TRUE, good_quality |-> gq, is_martial_arts |-> ma]
ValidationError == [ok |-> FALSE, good_quality |-> FALSE,
                    is_martial_arts |-> FALSE]

\* OutlineCheckerOutput.parse_raw(s): the object, or an exception for a text
\* that is not one JSON object with both fields.
parse_raw(s) ==
    IF Len(s) # 1 THEN ValidationError
    ELSE CASE s[1] = "{gq:true,ma:true}" -> OutlineCheckerOutput(TRUE, TRUE)
           [] s[1] = "{gq:true,ma:false}" -> OutlineCheckerOutput(TRUE, FALSE)
           [] s[1] = "{gq:false,ma:true}" -> OutlineCheckerOutput(FALSE, TRUE)
           [] s[1] = "{gq:false,ma:false}" ->
                  OutlineCheckerOutput(FALSE, FALSE)
           [] s[1] = "{gq:1,ma:yes}" -> OutlineCheckerOutput(TRUE, TRUE)
           [] OTHER -> ValidationError

\* A gate that looks at the quality flag only.
ProceedsOnQualityAlone(checker_obj) == checker_obj.good_quality

\* Neither "if not checker_obj.good_quality" nor
\* "if not checker_obj.is_martial_arts" exits.
Proceeds(checker_obj) ==
    checker_obj.good_quality /\ checker_obj.is_martial_arts

\* The locals of main().
NoLocals ==
    [input_prompt |-> "", outline_result |-> NoOutput,
     outline_checker_result |-> <<>>, s |-> <<>>,
     checker_obj |-> ValidationError, final_result |-> NoOutput]

\* src/flow-agent.py before main() runs, and when not run at all.
FlowNotStarted ==
    /\ fpc = "idle"
    /\ flocals = NoLocals
    /\ fcalls = <<>>

\* ------------------------------------------- result keys of the swarm files
\* The five files with a fan-out stage and a consensus stage:
\*   "sync" "async" "simple" "mock" as above, and
\*   "demo"  src/supervisor-swarm-demo.py  (class SwarmIntelligence)
SwarmFiles == {"sync", "async", "simple", "mock", "demo"}

\* The keys of self.agents in class SwarmIntelligence, in insertion order.
AgentOrder == <<"researcher", "analyst", "creator", "technician">>

\* The keys the fan-out stage of a file stores results under, in the order
\* its loop writes them.
FanOutKeys(f) == IF f = "demo" THEN AgentOrder ELSE WorkerOrder

\* A consensus stage whose prompt uses the worker labels in every file.
ConsensusReadKeysShared(f) == IF f = "mock" THEN <<>> ELSE ConsensusKeys

\* The keys the consensus stage of a file looks up with
\* parallel_results.get(key, '').  The mock file's consensus fills a fixed
\* template and looks up nothing.
ConsensusReadKeys(f) ==
    CASE f = "demo" -> <<"researcher", "analyst", "creator", "technician">>
      [] f = "mock" -> <<>>
      [] OTHER -> ConsensusKeys

\* What a worker's call leaves in results: its return value, or the
\* placeholder built from its exception.
KeyedOutput(key, failed) ==
    [kind |-> IF failed THEN "placeholder" ELSE "output", by |-> key]
\* '' : the default of parallel_results.get(key, '').
KeyedDefault == [kind |-> "empty", by |-> ""]

\* The slots of consensus_prompt filled from parallel_results.
PromptSlots(f, parallel_results) ==
    [i \in 1..Len(ConsensusReadKeys(f)) |->
        MapGet(parallel_results, ConsensusReadKeys(f)[i], KeyedDefault)]

\* The files before any of them is run, and when none is run.
KeysNotStarted ==
    /\ kfile = "none"
    /\ kpc = "idle"
    /\ kresults = <<>>
    /\ kprompt = <<>>

\* ------------------------------------------------------------------ actions
Init ==
    /\ variant \in Variants
    /\ pipeline \in Pipelines
    /\ modelImpl \in IF variant = "mock" THEN {"MockModel", "stub"}
                     ELSE {"external"}
    /\ reqNo = 0
    /\ draw = 0
    /\ hung = "none"
    /\ pc = "idle"
    /\ state = EmptyState
    /\ fan = NoFan
    /\ obs = NoObs
    /\ prev = NoPrev
    /\ ReActNotStarted
    /\ FlowNotStarted
    /\ KeysNotStarted

\* graph.invoke({"user_input": query, "step": 0, "done": False}, config)
\* in the demo's loop over test_cases.  The loop has no try/except: an
\* exception leaving invoke ends the demo, so no request follows a failed one.
\* h names the worker whose outbound call will never return during this
\* request ("none": every call returns or raises).
InvokeWith(query, tok, h) ==
    /\ pc \in {"idle", "returned"}
    /\ reqNo < MaxRequests
    /\ reqNo' = reqNo + 1
    /\ draw' = tok
    /\ hung' = h
    /\ state' = Update(ThreadLoad(variant, state), InputState(query))
    /\ pc' = StartNode(pipeline)
    /\ fan' = NoFan
    /\ obs' = [NoObs EXCEPT !.input = query,
                            !.loaded = ThreadLoad(variant, state)]
    /\ prev' = IF pc = "idle" THEN prev
               ELSE [valid |-> TRUE, input |-> obs.input,
                     ext |-> obs.ext, out |-> state]
    /\ UNCHANGED <<variant, pipeline, modelImpl>>
    /\ UNCHANGED <<reactVars, flowVars, keyVars>>

\* A request during which every outbound call returns or raises.
Invoke(query, tok) == InvokeWith(query, tok, "none")

\* A request during which one worker's outbound call may never return.
InvokeMayHang(query, tok, h) ==
    /\ reqNo < MaxLiveRequests
    /\ InvokeWith(query, tok, h)

\* Worker w's pending outbound call can complete.  The mock workers make no
\* call that can hang.
CallCompletes(var, w) == var = "mock" \/ w # hung

\* The classify node, then the edge out of it.
Classify ==
    /\ pc = "classify"
    /\ \E o \in ClassifierOutcomes(modelImpl,
                    Prompt("classify", Get(state, "user_input", ""), <<>>)) :
         LET writes == ClassifyWrites(state, o.raw)
             after == Update(state, writes)
             next == AfterClassify(variant, after)
             seen == [obs EXCEPT !.ran = Append(@, "classify"),
                                 !.llmCalls.classify = @ + 1,
                                 !.ext.classify = o]
         IN  IF o.st = "raise"
             THEN /\ pc' = "failed"
                  /\ state' = state
                  /\ obs' = [seen EXCEPT !.failedAt = "classify"]
             ELSE /\ pc' = IF next = "END" THEN "returned" ELSE next
                  /\ state' = after
                  /\ obs' = [Wrote(seen, writes) EXCEPT
                               !.routed = IF variant = "mock" THEN "unrouted"
                                          ELSE supervisor_route(after)]
    /\ UNCHANGED <<variant, pipeline, modelImpl, reqNo, draw, hung, fan, prev>>
    /\ UNCHANGED <<reactVars, flowVars, keyVars>>

\* The assign node, then the edge to END.
Assign ==
    /\ pc = "assign"
    /\ CallCompletes(variant, Get(state, "assigned_worker", "analysis"))
    /\ \E ext \in AssignExts(variant, state, draw) :
         LET a == AssignStage(variant, state, ext)
             seen == [obs EXCEPT
                        !.ran = Append(@, "assign"),
                        !.calls = Bump(@, a.called),
                        !.args = [w \in a.called |->
                                     Get(state, "user_input", "")],
                        !.raised = IF ExtRaised(ext) THEN @ \cup a.called ELSE @,
                        !.ext.workers = [w \in a.called |-> ext]]
         IN  IF a.raised
             THEN /\ pc' = "failed"
                  /\ state' = state
                  /\ obs' = [seen EXCEPT !.failedAt = "assign"]
             ELSE /\ pc' = "returned"
                  /\ state' = Update(state, a.writes)
                  /\ obs' = Wrote(seen, a.writes)
    /\ UNCHANGED <<variant, pipeline, modelImpl, reqNo, draw, hung, fan, prev>>
    /\ UNCHANGED <<reactVars, flowVars, keyVars>>

\* One iteration of the sequential fan-out loop.
ParallelLoop ==
    /\ pc = "parallel"
    /\ variant # "async"
    /\ DOMAIN fan.results # Workers
    /\ CallCompletes(variant, NextWorker(fan.results))
    /\ LET w == NextWorker(fan.results)
       IN  \E ext \in WorkerExts(variant, w, draw) :
             /\ fan' = [fan EXCEPT
                          !.results = DictSet(@, w,
                              FanoutTry(variant, w,
                                        Get(state, "user_input", ""), ext))]
             /\ obs' = [obs EXCEPT
                          !.calls = Bump(@, {w}),
                          !.args = DictSet(@, w, Get(state, "user_input", "")),
                          !.raised = IF ExtRaised(ext) THEN @ \cup {w} ELSE @,
                          !.ext.workers = DictSet(@, w, ext)]
    /\ UNCHANGED <<variant, pipeline, modelImpl, reqNo, draw, hung, pc, state, prev>>
    /\ UNCHANGED <<reactVars, flowVars, keyVars>>

\* The sequential fan-out returns its writes.
ParallelReturn ==
    /\ pc = "parallel"
    /\ variant # "async"
    /\ DOMAIN fan.results = Workers
    /\ LET writes == ParallelWrites(state, fan.results)
       IN  /\ state' = Update(state, writes)
           /\ pc' = AfterParallel(variant, state')
           /\ obs' = Wrote([obs EXCEPT !.ran = Append(@, "parallel")], writes)
    /\ UNCHANGED <<variant, pipeline, modelImpl, reqNo, draw, hung, fan, prev>>
    /\ UNCHANGED <<reactVars, flowVars, keyVars>>

\* asyncio.create_task for each worker, in dict order, then await gather.
CreateTasks ==
    /\ pc = "parallel"
    /\ variant = "async"
    /\ pc' = "gather"
    /\ fan' = [fan EXCEPT !.tasks = [w \in Workers |-> "created"]]
    /\ obs' = [obs EXCEPT
                 !.calls = Bump(@, Workers),
                 !.args = [w \in Workers |-> Get(state, "user_input", "")]]
    /\ UNCHANGED <<variant, pipeline, modelImpl, reqNo, draw, hung, state, prev>>
    /\ UNCHANGED <<reactVars, flowVars, keyVars>>

\* A task resumes from its pending await: the research task from the
\* search call and then from the model call, the others from the model call.
TaskStep(w) ==
    /\ fan.tasks[w] \in {"created", "searched"}
    /\ CallCompletes(variant, w)
    /\ LET input == Get(state, "user_input", "")
           finish(ext) ==
               /\ fan' = [fan EXCEPT
                            !.tasks[w] = "done",
                            !.gathered = GatherStore(@, w,
                                TaskResult(WorkerCall(variant, w, input, ext)))]
               /\ obs' = [obs EXCEPT
                            !.raised = IF ExtRaised(ext) THEN @ \cup {w} ELSE @,
                            !.reordered = @ \/ \E u \in Workers :
                                /\ Position(u) < Position(w)
                                /\ fan.tasks[u] # "done",
                            !.ext.workers = DictSet(@, w, ext)]
       IN  IF w = "research" /\ fan.tasks[w] = "created"
           THEN \E so \in SearchOutcomes :
                  IF so.st = "ok"
                  THEN /\ fan' = [fan EXCEPT !.tasks[w] = "searched"]
                       /\ obs' = obs
                  ELSE finish(Ext(so, NoCall))
           ELSE \E c \in ChatOutcomes(draw) :
                  finish(Ext(IF w = "research" THEN Returned(0) ELSE NoCall, c))
    /\ UNCHANGED <<variant, pipeline, modelImpl, reqNo, draw, hung, pc, state, prev>>
    /\ UNCHANGED <<reactVars, flowVars, keyVars>>

\* gather returns; the asynchronous fan-out zips and returns its writes.
GatherReturn ==
    /\ pc = "gather"
    /\ GatherDone(fan.tasks)
    /\ LET writes == ParallelWrites(state, ZipResults(WorkerOrder, fan.gathered))
       IN  /\ state' = Update(state, writes)
           /\ pc' = AfterParallel(variant, state')
           /\ obs' = Wrote([obs EXCEPT !.ran = Append(@, "parallel")], writes)
    /\ UNCHANGED <<variant, pipeline, modelImpl, reqNo, draw, hung, fan, prev>>
    /\ UNCHANGED <<reactVars, flowVars, keyVars>>

\* The consensus node, then the edge to END.
Consensus ==
    /\ pc = "consensus"
    /\ \E chat \in ConsensusExts(variant, draw) :
         LET c == ConsensusStage(variant, state, chat)
             seen == [obs EXCEPT
                        !.ran = Append(@, "consensus"),
                        !.llmCalls.consensus =
                            IF chat.st = "nocall" THEN @ ELSE @ + 1,
                        !.saw = Get(state, "parallel_results", EmptyMap),
                        !.ext.consensus = chat]
         IN  IF c.raised
             THEN /\ pc' = "failed"
                  /\ state' = state
                  /\ obs' = [seen EXCEPT !.failedAt = "consensus"]
             ELSE /\ pc' = "returned"
                  /\ state' = Update(state, c.writes)
                  /\ obs' = Wrote(seen, c.writes)
    /\ UNCHANGED <<variant, pipeline, modelImpl, reqNo, draw, hung, fan, prev>>
    /\ UNCHANGED <<reactVars, flowVars, keyVars>>

Next ==
    \/ \E query \in Inputs, tok \in 1..MaxTok : Invoke(query, tok)
    \/ Classify
    \/ Assign
    \/ ParallelLoop
    \/ ParallelReturn
    \/ CreateTasks
    \/ \E w \in Workers : TaskStep(w)
    \/ GatherReturn
    \/ Consensus

Spec == Init /\ [][Next]_vars

\* --------------------------------------------------------------- progress
\* The calls that may be the one that never returns: a real worker's search
\* or model call.  MockSearch and the mock workers' templates cannot hang.
HangChoices(var) == IF var = "mock" THEN {"none"} ELSE Workers \cup {"none"}

\* No stage branches on which of its texts a worker or the consensus model
\* returned, so progress is checked with the first text.
LiveNext ==
    \/ \E query \in Inputs, h \in HangChoices(variant) :
          InvokeMayHang(query, 1, h)
    \/ Classify
    \/ Assign
    \/ ParallelLoop
    \/ ParallelReturn
    \/ CreateTasks
    \/ \E w \in Workers : TaskStep(w)
    \/ GatherReturn
    \/ Consensus

\* A step of the request being served.
Step ==
    \/ Classify
    \/ Assign
    \/ ParallelLoop
    \/ ParallelReturn
    \/ CreateTasks
    \/ \E w \in Workers : TaskStep(w)
    \/ GatherReturn
    \/ Consensus

\* The interpreter and the event loop keep running while something is
\* runnable, and an outbound call that is not the hung one returns or
\* raises.  Nothing obliges a caller to send a request.
Fairness == WF_vars(Step)

LiveSpec == Init /\ [][LiveNext]_vars /\ Fairness

\* ----------------------------------------------------- ReAct graph actions
\* The supervisor/swarm scripts are not running.
SwarmNotStarted ==
    /\ variant = "none"
    /\ pipeline = "none"
    /\ modelImpl = "none"
    /\ reqNo = 0
    /\ draw = 0
    /\ hung = "none"
    /\ pc = "idle"
    /\ state = EmptyState
    /\ fan = NoFan
    /\ obs = NoObs
    /\ prev = NoPrev

ReActInit ==
    /\ rvariant \in ReActVariants
    /\ rinv = 0
    /\ rpc = "idle"
    /\ rstate = ReActEmpty
    /\ robs = NoReActObs
    /\ SwarmNotStarted
    /\ FlowNotStarted
    /\ KeysNotStarted

\* agent.invoke(input, config) on the thread_id the script keeps using.
\* Neither script catches an exception of invoke, so no round follows a
\* failed one.
ReActInvoke(q) ==
    /\ rpc \in {"idle", "end"}
    /\ rinv < MaxInvocations
    /\ rinv' = rinv + 1
    /\ rstate' = ReActInput(rvariant, rstate, q)
    /\ rpc' = "input"
    /\ robs' = NoReActObs
    /\ UNCHANGED <<rvariant, swarmVars, flowVars, keyVars>>

\* START -> input -> think
NodeInput ==
    /\ rpc = "input"
    /\ rstate' = node_input(rvariant, rstate)
    /\ rpc' = "think"
    /\ UNCHANGED <<rvariant, rinv, robs, swarmVars, flowVars, keyVars>>

\* The think node and the conditional edge after it.
NodeThink ==
    /\ rpc = "think"
    /\ \E out \in ThinkOutcomes :
          IF out.st = "raise"
          THEN /\ rpc' = "failed"
               /\ rstate' = rstate
               /\ robs' = [robs EXCEPT !.thinks = @ + 1,
                                       !.extRaised = TRUE,
                                       !.error = "external"]
          ELSE LET st == node_think(rvariant, rstate, out.val)
                   to == route(st)
               IN  /\ rstate' = st
                   /\ rpc' = IF to \in {"act", "finish"} THEN to ELSE "failed"
                   /\ robs' = [robs EXCEPT
                         !.thinks = @ + 1,
                         !.injected =
                             IF ThinkInjects(rvariant, rstate)
                             THEN @ \cup {rstate.last_tool_result}
                             ELSE @,
                         !.routed = @ \cup {<<st.model_action, to>>},
                         !.error = IF to \in {"act", "finish"} THEN @ ELSE to]
    /\ UNCHANGED <<rvariant, rinv, swarmVars, flowVars, keyVars>>

\* The act node and the conditional edge after it.
NodeAct ==
    /\ rpc = "act"
    /\ \E raises \in BOOLEAN :
          IF ActLookupFails(rstate)
          THEN /\ rpc' = "failed"
               /\ rstate' = rstate
               /\ raises = FALSE
               /\ robs' = [robs EXCEPT !.acts = @ + 1,
                                       !.actedOn = @ \cup {rstate.model_action},
                                       !.lookupMissed = TRUE,
                                       !.error = "KeyError"]
          ELSE IF raises
          THEN /\ rpc' = "failed"
               /\ rstate' = rstate
               /\ robs' = [robs EXCEPT !.acts = @ + 1,
                                       !.actedOn = @ \cup {rstate.model_action},
                                       !.extRaised = TRUE,
                                       !.error = "external"]
          ELSE LET st == node_act(rvariant, rstate,
                                  ToolResult(rinv, robs.acts + 1))
                   to == continue_or_finish(st)
               IN  /\ rstate' = st
                   /\ rpc' = to
                   /\ robs' = [robs EXCEPT
                         !.acts = @ + 1,
                         !.actedOn = @ \cup {rstate.model_action},
                         !.afterAct = Append(@, to),
                         !.viaLimit = (to = "finish")]
    /\ UNCHANGED <<rvariant, rinv, swarmVars, flowVars, keyVars>>

\* The finish node and the edge to END.
NodeFinish ==
    /\ rpc = "finish"
    /\ IF FinishCallsModel(rstate)
       THEN \E out \in FinishOutcomes :
              IF out.st = "raise"
              THEN /\ rpc' = "failed"
                   /\ rstate' = rstate
                   /\ robs' = [robs EXCEPT !.finishes = @ + 1,
                                           !.finishOn = {rstate.model_action},
                                           !.finishCalls = @ + 1,
                                           !.extRaised = TRUE,
                                           !.error = "external"]
              ELSE /\ rpc' = "end"
                   /\ rstate' = node_finish(rstate, out.val)
                   /\ robs' = [robs EXCEPT !.finishes = @ + 1,
                                           !.finishOn = {rstate.model_action},
                                           !.finishCalls = @ + 1]
       ELSE /\ rpc' = "end"
            /\ rstate' = node_finish(rstate, <<>>)
            /\ robs' = [robs EXCEPT !.finishes = @ + 1,
                                    !.finishOn = {rstate.model_action}]
    /\ UNCHANGED <<rvariant, rinv, swarmVars, flowVars, keyVars>>

ReActNext ==
    \/ \E q \in Questions : ReActInvoke(q)
    \/ NodeInput
    \/ NodeThink
    \/ NodeAct
    \/ NodeFinish

ReActSpec == ReActInit /\ [][ReActNext]_vars

\* ------------------------------------------------------ story flow actions
FlowInit ==
    /\ FlowNotStarted
    /\ SwarmNotStarted
    /\ ReActNotStarted
    /\ KeysNotStarted

\* asyncio.run(main()) up to the first await: the prompt is read and the
\* outline agent is started.
FlowStart(prompt) ==
    /\ fpc = "idle"
    /\ flocals' = [flocals EXCEPT !.input_prompt = prompt]
    /\ fcalls' = Append(fcalls, <<FlowAgents[1], prompt>>)
    /\ fpc' = "outline"
    /\ UNCHANGED <<swarmVars, reactVars, keyVars>>

\* Runner.run(outline_agent, ...) returns or raises; on return the checker
\* agent is started on the outline.
OutlineReturns ==
    /\ fpc = "outline"
    /\ \/ \E k \in FlowReplies :
            LET outline == AgentOutput(FlowAgents[1], flocals.input_prompt, k)
            IN  /\ flocals' = [flocals EXCEPT !.outline_result = outline]
                /\ fcalls' = Append(fcalls, <<FlowAgents[2], outline>>)
                /\ fpc' = "checker"
       \/ /\ fpc' = "failed"
          /\ UNCHANGED <<flocals, fcalls>>
    /\ UNCHANGED <<swarmVars, reactVars, keyVars>>

\* Runner.run(outline_checker_agent, ...) returns or raises; on return the
\* output is unfenced and parsed, and main() exits or starts the story agent.
CheckerReturns ==
    /\ fpc = "checker"
    /\ \/ \E raw \in CheckerOutputs :
            LET s == Unfence(raw)
                checker_obj == parse_raw(s)
            IN  /\ flocals' = [flocals EXCEPT
                                  !.outline_checker_result = raw,
                                  !.s = s,
                                  !.checker_obj = checker_obj]
                /\ IF ~checker_obj.ok
                   THEN fpc' = "failed" /\ fcalls' = fcalls
                   ELSE IF ~Proceeds(checker_obj)
                   THEN fpc' = "exited" /\ fcalls' = fcalls
                   ELSE /\ fpc' = "story"
                        /\ fcalls' = Append(fcalls,
                              <<FlowAgents[3], flocals.outline_result>>)
       \/ /\ fpc' = "failed"
          /\ UNCHANGED <<flocals, fcalls>>
    /\ UNCHANGED <<swarmVars, reactVars, keyVars>>

\* Runner.run(story_agent, ...) returns or raises; main() prints the story.
StoryReturns ==
    /\ fpc = "story"
    /\ \/ \E k \in FlowReplies :
            /\ flocals' = [flocals EXCEPT !.final_result =
                  AgentOutput(FlowAgents[3], flocals.outline_result, k)]
            /\ fpc' = "done"
       \/ /\ fpc' = "failed"
          /\ flocals' = flocals
    /\ UNCHANGED <<fcalls, swarmVars, reactVars, keyVars>>

FlowNext ==
    \/ \E prompt \in Prompts : FlowStart(prompt)
    \/ OutlineReturns
    \/ CheckerReturns
    \/ StoryReturns

FlowSpec == FlowInit /\ [][FlowNext]_vars

\* -------------------------------------------------- swarm file key actions
KeysInit ==
    /\ kfile \in SwarmFiles
    /\ kpc = "fanout"
    /\ kresults = <<>>
    /\ kprompt = <<>>
    /\ SwarmNotStarted
    /\ ReActNotStarted
    /\ FlowNotStarted

\* One round of the fan-out stage's loop over its workers (in the async
\* file: over zip(worker_names, results)): the next key receives the
\* worker's output or the placeholder of its exception.  After the last
\* key the stage returns parallel_results.
FanOutWrite(failed) ==
    /\ kpc = "fanout"
    /\ LET key == FanOutKeys(kfile)[Len(kresults) + 1]
       IN  kresults' = Append(kresults, <<key, KeyedOutput(key, failed)>>)
    /\ kpc' = IF Len(kresults) + 1 = Len(FanOutKeys(kfile))
              THEN "consensus" ELSE "fanout"
    /\ UNCHANGED <<kfile, kprompt, swarmVars, reactVars, flowVars>>

\* The dict the fan-out stage returned.
ParallelResults ==
    [key \in {kresults[i][1] : i \in DOMAIN kresults} |->
        (CHOOSE v \in {kresults[i][2] : i \in DOMAIN kresults} : v.by = key)]

\* The consensus stage builds its text from parallel_results.
ConsensusRead ==
    /\ kpc = "consensus"
    /\ kprompt' = PromptSlots(kfile, ParallelResults)
    /\ kpc' = "done"
    /\ UNCHANGED <<kfile, kresults, swarmVars, reactVars, flowVars>>

KeysNext ==
    \/ \E failed \in BOOLEAN : FanOutWrite(failed)
    \/ ConsensusRead

KeysSpec == KeysInit /\ [][KeysNext]_vars

\* ------------------------------------------------------------------ claims
TaskType == Get(state, "task_type", "")

Classified == pipeline = "supervisor" /\ Ran("classify") /\ obs.failedAt # "classify"

\* C1: when the classifier output is one of the four labels L, the run goes
\* to the assign stage, and the assign stage invokes the worker registered
\* under L exactly once and none of the other three.
DispatchInvokesExactlyTheLabelledWorker ==
    (Classified /\ TaskType \in RouteLabels) =>
        /\ pc = "assign" \/ Ran("assign")
        /\ pc = "assign" => \A w \in Workers : obs.calls[w] = 0
        /\ Ran("assign") =>
             \A w \in Workers : obs.calls[w] = IF w = TaskType THEN 1 ELSE 0

\* A LangGraph run dispatched to the technical worker and returned.
DispatchedToTechnical ==
    /\ variant = "sync"
    /\ pipeline = "supervisor"
    /\ pc = "returned"
    /\ TaskType = "technical"
    /\ obs.calls["technical"] = 1
    /\ state.v.worker_result.role = "technical"

\* C2: for a classifier output outside the four labels the run ends on the
\* FINISH route: the assign stage does not execute and no worker is invoked,
\* in the LangGraph graphs and under SimpleGraph alike.
UnknownLabelFinishesWithoutAssign ==
    (Classified /\ TaskType \notin RouteLabels) =>
        /\ pc = "returned"
        /\ ~Ran("assign")
        /\ \A w \in Workers : obs.calls[w] = 0

\* C3: a request whose classifier output is outside the four labels returns
\* a state with worker_result unset and done not true.
UnknownLabelLeavesResultUnset ==
    (Classified /\ TaskType \notin RouteLabels /\ pc = "returned") =>
        /\ "worker_result" \notin state.keys
        /\ Get(state, "done", FALSE) = FALSE

\* The text the fan-out owes key w: what worker w returned for the replies
\* its own outbound calls received, or a placeholder for what it raised.
ExpectedResult(w) ==
    LET r == WorkerCall(variant, w, obs.input, obs.ext.workers[w])
    IN  IF r.raised THEN Placeholder("fanout", r.err) ELSE r.val

RaisedErr(ext) == IF ext.search.st = "raise" THEN ext.search.err ELSE ext.chat.err

\* A worker branch is resolved: it returned or failed.
Resolved(w) ==
    IF variant = "async" THEN fan.tasks[w] = "done"
    ELSE w \in DOMAIN fan.results

\* C4: in the asynchronous fan-out, whatever the order in which the four
\* tasks complete, every finished task's result sits at its own position of
\* the gather list and parallel_results binds each key to the result of the
\* worker of that name.
FanOutKeyedByWorkerNotArrival ==
    (variant = "async" /\ pipeline = "swarm") =>
        /\ \A w \in Workers :
             fan.tasks[w] = "done" =>
                 fan.gathered[Position(w)] = ExpectedResult(w)
        /\ Ran("parallel") =>
             /\ "parallel_results" \in state.keys
             /\ DOMAIN state.v.parallel_results = Workers
             /\ \A w \in Workers :
                  /\ state.v.parallel_results[w] = ExpectedResult(w)
                  /\ state.v.parallel_results[w].role = w

\* The asynchronous fan-out returned after its tasks completed out of
\* creation order, with a failed and a successful worker among them.
AsyncFanOutCompletedOutOfOrder ==
    /\ variant = "async"
    /\ pipeline = "swarm"
    /\ Ran("parallel")
    /\ obs.reordered
    /\ obs.raised = {"analysis"}
    /\ state.v.parallel_results["technical"].kind = "reply"

\* C5: when exactly one worker raises during the fan-out, parallel_results
\* has all four keys, the failing worker's key holds a placeholder naming
\* the failure, the other three hold their workers' normal results, and the
\* run proceeds to the consensus stage.
SingleFailureYieldsOnePlaceholder ==
    (pipeline = "swarm" /\ Ran("parallel") /\ Cardinality(obs.raised) = 1) =>
        /\ "parallel_results" \in state.keys
        /\ DOMAIN state.v.parallel_results = Workers
        /\ \A w \in obs.raised :
             /\ IsPlaceholder(state.v.parallel_results[w])
             /\ state.v.parallel_results[w].err = RaisedErr(obs.ext.workers[w])
        /\ \A w \in Workers \ obs.raised :
             /\ state.v.parallel_results[w].kind = "reply"
             /\ state.v.parallel_results[w].role = w
             /\ state.v.parallel_results[w].input = obs.input
        /\ pc = "consensus" \/ Ran("consensus")

\* The sequential fan-out caught the creative worker's exception and the
\* consensus stage ran.
OneWorkerFailedAndConsensusRan ==
    /\ variant = "simple"
    /\ pipeline = "swarm"
    /\ obs.raised = {"creative"}
    /\ Ran("consensus")
    /\ pc = "returned"
    /\ state.v.parallel_results["creative"] = Placeholder("fanout", "E")

\* C6: an exception raised by a worker's external call never propagates,
\* neither out of the supervisor's assign stage nor out of the fan-out: the
\* stage returns normally with a placeholder (for the supervisor,
\* worker_result = placeholder and done = true).
WorkerFailureNeverPropagates ==
    /\ obs.failedAt \notin {"assign", "parallel"}
    /\ (pipeline = "supervisor" /\ Ran("assign") /\ obs.raised # {}) =>
         /\ pc = "returned"
         /\ IsPlaceholder(state.v.worker_result)
         /\ state.v.done = TRUE

\* C7: the consensus stage starts only after all four worker branches have
\* returned or failed.
BarrierBeforeConsensus ==
    (pc = "consensus" \/ Ran("consensus")) =>
        \A w \in Workers : Resolved(w)

\* The asynchronous run stands at the consensus stage after tasks finished
\* out of order, one of them by failing.
AsyncJoinReached ==
    /\ variant = "async"
    /\ pc = "consensus"
    /\ obs.reordered
    /\ obs.raised = {"research"}

\* C8: within one swarm request parallel_results is written exactly once, by
\* the fan-out stage, before the consensus stage reads it; the consensus
\* stage does not write it and reads all four keys with this request's
\* results, never an unset or partly filled mapping.
ParallelResultsWrittenOnceBeforeRead ==
    pipeline = "swarm" =>
        /\ obs.prWrites = IF Ran("parallel") THEN 1 ELSE 0
        /\ (pc = "consensus" \/ Ran("consensus")) =>
             /\ obs.prWrites = 1
             /\ "parallel_results" \in state.keys
        /\ Ran("consensus") =>
             /\ DOMAIN obs.saw = Workers
             /\ \A w \in Workers : obs.saw[w] = ExpectedResult(w)
             /\ state.v.parallel_results = obs.saw

\* A second request on the same graph whose consensus stage read results
\* that differ from the ones the first request left behind.
SecondRequestConsensusRead ==
    /\ pipeline = "swarm"
    /\ variant = "sync"
    /\ reqNo = 2
    /\ pc = "returned"
    /\ "parallel_results" \in obs.loaded.keys
    /\ obs.saw # obs.loaded.v.parallel_results

InputFields == DOMAIN InputState(obs.input)

RerunYieldsIdenticalState ==
    (/\ pc = "returned"
     /\ prev.valid
     /\ prev.input = obs.input
     /\ prev.ext = obs.ext) => state = prev.out

\* Two dispatching supervisor runs, and two swarm runs with a failed worker,
\* were repeated with the same input and replies.
RerunHappened ==
    /\ pc = "returned"
    /\ prev.valid
    /\ prev.input = obs.input
    /\ prev.ext = obs.ext
    /\ variant \in LangGraphVariants
    /\ \/ pipeline = "supervisor" /\ Ran("assign")
       \/ pipeline = "swarm" /\ obs.raised # {}

\* The tokens of a reply that are not whitespace.
NonSpace(raw) == SelectSeq(raw, LAMBDA tok : ~IsSpace(tok))

\* The reply differs from label only by case or surrounding whitespace.
SpellsLabel(raw, label) ==
    /\ Len(NonSpace(raw)) = 1
    /\ NonSpace(raw)[1] \in {label, Upper[label]}

\* C11: in the graphs that route on the label, the label is the classifier
\* reply trimmed and lower-cased and nothing else: a reply that spells a
\* label up to case and surrounding whitespace is dispatched to that label's
\* worker, and every other reply (a label followed by punctuation, a label
\* inside a sentence) is no label and takes the FINISH route.
LabelIsTrimmedLowerCasedReply ==
    (Classified /\ variant \in LangGraphVariants) =>
        LET raw == obs.ext.classify.raw
        IN  IF \E l \in RouteLabels : SpellsLabel(raw, l)
            THEN /\ \E l \in RouteLabels : SpellsLabel(raw, l) /\ TaskType = l
                 /\ obs.routed = "assign"
                 /\ pc = "assign" \/ Ran("assign")
                 /\ Ran("assign") =>
                      \A w \in Workers :
                          obs.calls[w] = IF SpellsLabel(raw, w) THEN 1 ELSE 0
            ELSE /\ TaskType \notin RouteLabels
                 /\ obs.routed = "finish"
                 /\ pc = "returned"
                 /\ ~Ran("assign")
                 /\ \A w \in Workers : obs.calls[w] = 0

\* A reply "analysis." took the FINISH route, and the next request's reply
\* " ANALYSIS " was dispatched to the analysis worker.
UpperCasePaddedReplyDispatched ==
    /\ variant = "sync"
    /\ pipeline = "supervisor"
    /\ pc = "returned"
    /\ prev.valid
    /\ prev.ext.classify.raw = <<"analysis", ".">>
    /\ "worker_result" \notin prev.out.keys
    /\ obs.ext.classify.raw = <<" ", "ANALYSIS", " ">>
    /\ obs.calls["analysis"] = 1
    /\ state.v.worker_result.role = "analysis"

\* How often stage ran in this request.
TimesRan(stage) == Cardinality({i \in 1..Len(obs.ran) : obs.ran[i] = stage})

WorkerCalls == obs.calls["research"] + obs.calls["analysis"]
               + obs.calls["creative"] + obs.calls["technical"]

\* C12: the supervisor pipeline is terminal after one hop: in every run the
\* classify stage executes exactly once and first, the assign stage at most
\* once and after it, control never returns to classify, and the classifier
\* call and the worker call are each issued at most once.
SupervisorTerminalAfterOneHop ==
    pipeline = "supervisor" =>
        /\ pc \in {"idle", "classify", "assign", "returned", "failed"}
        /\ TimesRan("classify") = IF pc \in {"idle", "classify"} THEN 0 ELSE 1
        /\ TimesRan("assign") <= 1
        /\ obs.ran \in {<<>>, <<"classify">>, <<"classify", "assign">>}
        /\ pc = "assign" => obs.ran = <<"classify">>
        /\ obs.llmCalls.classify = TimesRan("classify")
        /\ WorkerCalls <= TimesRan("assign")

\* SimpleGraph's while loop ran classify and assign once each and returned.
SimpleGraphLoopLeftAfterAssign ==
    /\ variant = "mock"
    /\ modelImpl = "MockModel"
    /\ pipeline = "supervisor"
    /\ pc = "returned"
    /\ obs.ran = <<"classify", "assign">>
    /\ obs.llmCalls.classify = 1
    /\ WorkerCalls = 1

\* C13: in one swarm request the fan-out invokes each of the four workers
\* exactly once, all with the request's user_input; a worker that fails is
\* not invoked again, and its failure is recorded once, as the placeholder
\* under its own key, before the join proceeds.
EachWorkerInvokedOnceWithTheInput ==
    pipeline = "swarm" =>
        /\ \A w \in Workers : obs.calls[w] <= 1
        /\ \A w \in Workers : obs.calls[w] = 1 <=> w \in DOMAIN obs.args
        /\ \A w \in DOMAIN obs.args : obs.args[w] = obs.input
        /\ obs.raised \subseteq DOMAIN obs.args
        /\ (Ran("parallel") \/ pc = "consensus") =>
             /\ \A w \in Workers : obs.calls[w] = 1
             /\ \A w \in Workers :
                  IsPlaceholder(state.v.parallel_results[w]) <=> w \in obs.raised
             /\ \A w \in obs.raised :
                  state.v.parallel_results[w].err = RaisedErr(obs.ext.workers[w])

\* The sequential fan-out went on after two workers failed and handed four
\* results to the consensus stage.
TwoWorkersFailedEachCalledOnce ==
    /\ variant = "sync"
    /\ pipeline = "swarm"
    /\ pc = "consensus"
    /\ obs.raised = {"research", "creative"}
    /\ \A w \in Workers : obs.calls[w] = 1 /\ obs.args[w] = obs.input
    /\ IsPlaceholder(state.v.parallel_results["creative"])

\* The stage that ran last in this request.
LastRan == IF obs.ran = <<>> THEN "" ELSE obs.ran[Len(obs.ran)]

\* C14: when the chat model raises during the classify stage or during the
\* consensus stage, the request fails as a whole: the exception leaves the
\* stage, no later stage runs, done is not set to true and neither
\* worker_result nor consensus_result is written for that request.
ClassifierOrConsensusFailureFailsRequest ==
    /\ obs.ext.classify.st = "raise" =>
         /\ pc = "failed"
         /\ obs.failedAt = "classify"
         /\ obs.ran = <<"classify">>
         /\ WorkerCalls = 0
         /\ obs.written = {}
         /\ Get(state, "done", FALSE) = FALSE
    /\ obs.ext.consensus.st = "raise" =>
         /\ pc = "failed"
         /\ obs.failedAt = "consensus"
         /\ LastRan = "consensus"
         /\ obs.written \cap {"worker_result", "consensus_result", "done"} = {}
         /\ Get(state, "done", FALSE) = FALSE
    /\ pc = "failed" => Get(state, "done", FALSE) = FALSE

\* The second swarm request failed in the consensus stage although all four
\* workers had answered; the thread still holds the first request's answer.
ConsensusFailedAfterWorkersAnswered ==
    /\ variant = "async"
    /\ pipeline = "swarm"
    /\ reqNo = 2
    /\ pc = "failed"
    /\ obs.ext.consensus.st = "raise"
    /\ obs.raised = {}
    /\ "consensus_result" \in state.keys
    /\ state.v.consensus_result = obs.loaded.v.consensus_result

\* C15: for the same input and the same outcomes of the workers' external
\* calls, exceptions included, the sequential fan-out of the synchronous
\* file and the asynchronous fan-out produce the same parallel_results.
SyncAndAsyncFanOutAgree ==
    (pipeline = "swarm" /\ Ran("parallel")) =>
        /\ variant = "async" =>
             state.v.parallel_results =
                 SequentialFanOut("sync", obs.input, obs.ext.workers)
        /\ variant = "sync" =>
             state.v.parallel_results = AsyncFanOut(obs.input, obs.ext.workers)

\* C16: a run that took the DISPATCH path with label L and returned has
\* task_type = assigned_worker = L, worker_result equal to the text L's
\* worker returned, unchanged, and done = true.
DispatchedRunReturnsWorkerOutput ==
    (Classified /\ Ran("assign") /\ pc = "returned"
                /\ TaskType \in RouteLabels) =>
        /\ state.v.task_type = Normalise(obs.ext.classify.raw)
        /\ state.v.assigned_worker = state.v.task_type
        /\ {"task_type", "assigned_worker", "worker_result", "done"}
               \subseteq obs.written
        /\ state.v.worker_result =
               WorkerCall(variant, TaskType, obs.input,
                          obs.ext.workers[TaskType]).val
        /\ state.v.worker_result.role = TaskType
        /\ state.v.done = TRUE

\* The mock variant, its classifier replaced by a double answering
\* "analysis", returned the analysis worker's templated output.
MockedAnalysisDispatchReturned ==
    /\ variant = "mock"
    /\ modelImpl = "stub"
    /\ pipeline = "supervisor"
    /\ pc = "returned"
    /\ obs.ext.classify.raw = <<"analysis">>
    /\ state.v.worker_result = Template("analysis", obs.input, <<>>)
    /\ state.v.done = TRUE

\* C17: in every swarm variant, the mock test variant included, the
\* consensus stage builds one prompt that contains the value stored under
\* every key the fan-out wrote, forwards it to the model exactly once, and
\* consensus_result is the model's reply to that prompt.
ConsensusForwardsAllOutputsOnce ==
    (pipeline = "swarm" /\ Ran("consensus") /\ pc = "returned") =>
        LET written == state.v.parallel_results
            prompt == Prompt("consensus", obs.input,
                             [i \in 1..Len(WorkerOrder) |->
                                 written[WorkerOrder[i]]])
        IN  /\ obs.llmCalls.consensus = 1
            /\ \A w \in DOMAIN written :
                 \E i \in 1..Len(prompt.ctx) : prompt.ctx[i] = written[w]
            /\ state.v.consensus_result =
                   Reply(prompt, obs.ext.consensus.tok)

\* The label C18 expects for an input with the keywords kws.
LabelByInputKeywords(kws) ==
    IF kws \cap {"yanjiu", "sousuo"} # {} THEN "research"
    ELSE IF kws \cap {"fenxi", "bijiao"} # {} THEN "analysis"
    ELSE IF kws \cap {"chuangzuo", "xie"} # {} THEN "creative"
    ELSE IF kws \cap {"jishu", "biancheng"} # {} THEN "technical"
    ELSE "analysis"

\* C18: in the mock test variant the label supervisor_classify produces
\* follows the keywords of the user input (research, else analysis, else
\* creative, else technical keywords; analysis for an input with none), so
\* two demo inputs with different keywords get different labels.
MockLabelFollowsInputKeywords ==
    (variant = "mock" /\ modelImpl = "MockModel" /\ Classified) =>
        /\ TaskType = LabelByInputKeywords(InputKeywords[obs.input])
        /\ (prev.valid /\ prev.input # obs.input) =>
             prev.out.v.task_type # TaskType

\* A request is being served.
Running == pc \in {"classify", "assign", "parallel", "gather", "consensus"}

\* With one worker's call hung the swarm run stays before the consensus
\* stage.
HungSwarmRunStaysBeforeConsensus ==
    (pipeline = "swarm" /\ variant # "mock" /\ hung \in Workers)
        => pc \notin {"consensus", "returned", "failed"}

\* C19 as stated: if every external call returns or raises, every run
\* terminates, in done = true or in a propagated failure; if one worker's
\* call never returns, the swarm run never reaches the consensus stage.
RunsEndDoneOrFailedUnlessHung ==
    /\ (Running /\ hung = "none") ~> (pc \in {"returned", "failed"})
    /\ [](pc = "returned" => Get(state, "done", FALSE))
    /\ []HungSwarmRunStaysBeforeConsensus

\* C19 amended: if every external call returns or raises, every run
\* terminates: it returns with done = true, or returns on the FINISH route
\* with done not true, or fails with the propagated exception; if one
\* worker's call never returns, the swarm run never reaches the consensus
\* stage and never ends.
RunsTerminateUnlessHung ==
    /\ (Running /\ hung = "none") ~> (pc \in {"returned", "failed"})
    /\ [](pc = "returned" =>
            \/ Get(state, "done", FALSE)
            \/ /\ pipeline = "supervisor"
               /\ variant \in LangGraphVariants
               /\ obs.routed = "finish"
               /\ ~Ran("assign"))
    /\ []HungSwarmRunStaysBeforeConsensus

\* The asynchronous fan-out waits in gather for the creative task, whose
\* model call never returns, after the other three tasks finished.
GatherWaitsForHungTask ==
    /\ variant = "async"
    /\ pipeline = "swarm"
    /\ hung = "creative"
    /\ pc = "gather"
    /\ \A w \in Workers \ {"creative"} : fan.tasks[w] = "done"
    /\ fan.tasks["creative"] = "created"
    /\ ~ENABLED GatherReturn

\* The request started from an empty thread: nothing was loaded.
FreshThread == pc # "idle" /\ obs.loaded.keys = {}

\* C20: fields are filled in pipeline order.  In every state of a request,
\* done = true implies that the pipeline's result field was written in this
\* request (worker_result for the supervisor; consensus_result for the
\* swarm, after a parallel_results with all four keys), and worker_result is
\* written only after task_type and assigned_worker were written in the same
\* request; on a thread that held nothing before, written means present.
FieldsFilledInPipelineOrder ==
    /\ Get(state, "done", FALSE) =>
         /\ "done" \in obs.written
         /\ pipeline = "supervisor" =>
              "worker_result" \in obs.written /\ "worker_result" \in state.keys
         /\ pipeline = "swarm" =>
              /\ {"parallel_results", "consensus_result"} \subseteq obs.written
              /\ DOMAIN state.v.parallel_results = Workers
              /\ state.v.consensus_result # EmptyText
              /\ obs.ran = <<"parallel", "consensus">>
    /\ "worker_result" \in obs.written =>
         /\ {"task_type", "assigned_worker"} \subseteq obs.written
         /\ obs.ran = <<"classify", "assign">>
    /\ "consensus_result" \in obs.written => "parallel_results" \in obs.written
    /\ FreshThread =>
         /\ state.keys = InputFields \cup obs.written
         /\ "worker_result" \in state.keys =>
              {"task_type", "assigned_worker"} \subseteq state.keys
         /\ "consensus_result" \in state.keys =>
              "parallel_results" \in state.keys

\* A swarm request on a thread that already held an answer returned with
\* done = true and both of its fields written anew.
SwarmRequestFilledBothFields ==
    /\ variant = "simple"
    /\ pipeline = "swarm"
    /\ reqNo = 2
    /\ pc = "returned"
    /\ state.v.done = TRUE
    /\ {"parallel_results", "consensus_result"} \subseteq obs.written
    /\ state.v.consensus_result # obs.loaded.v.consensus_result

\* The texts worker w has produced in this request, wherever they stand.
ProducedBy(w) ==
    (IF pipeline = "supervisor" /\ Ran("assign") /\ pc = "returned"
        /\ obs.calls[w] = 1
     THEN {state.v.worker_result} ELSE {})
    \cup (IF pipeline = "swarm" /\ Ran("parallel")
          THEN {state.v.parallel_results[w]} ELSE {})
    \cup (IF w \in DOMAIN fan.results THEN {fan.results[w]} ELSE {})

\* C21: the research worker calls the search tool first and the model
\* second, with the search result in the model prompt; the model is not
\* called while the search is pending, nor at all when the search raised;
\* no other worker searches.
ResearchSearchesBeforeModel ==
    /\ \A w \in DOMAIN obs.ext.workers :
         LET e == obs.ext.workers[w]
         IN  IF w = "research"
             THEN /\ e.search.st \in {"ok", "raise"}
                  /\ e.search.st = "raise" => e.chat.st = "nocall"
                  /\ e.chat.st # "nocall" => e.search.st = "ok"
                  /\ \A t \in ProducedBy(w) :
                       /\ e.search.st = "raise" =>
                            IsPlaceholder(t) /\ t.err = e.search.err
                       /\ t.kind \in {"reply", "template"} =>
                            t.ctx = <<SearchResult(obs.input)>>
                       /\ variant # "mock" =>
                            (t.kind = "reply" <=> e.chat.st = "ok")
             ELSE e.search.st = "nocall"
    /\ fan.tasks["research"] \in {"created", "searched"} =>
         "research" \notin DOMAIN obs.ext.workers

\* The research worker, dispatched by the supervisor of the simple file,
\* returned the model's reply to a prompt holding the search result.
ResearchRepliedFromSearchResult ==
    /\ variant = "simple"
    /\ pipeline = "supervisor"
    /\ pc = "returned"
    /\ TaskType = "research"
    /\ obs.ext.workers["research"].search.st = "ok"
    /\ obs.ext.workers["research"].chat.st = "ok"
    /\ state.v.worker_result.kind = "reply"
    /\ state.v.worker_result.ctx = <<SearchResult(obs.input)>>

FailedWithoutExternalError == rpc = "failed" /\ ~robs.extRaised

\* The step limit alone: at most StepLimit act steps and as many think
\* steps, and the branch after act number StepLimit is finish.
StepLimitHolds ==
    /\ robs.acts <= StepLimit
    /\ robs.thinks <= StepLimit
    /\ \A i \in DOMAIN robs.afterAct :
          robs.afterAct[i] = (IF i < StepLimit THEN "think" ELSE "finish")

\* C23: in every invocation of the ReAct graph the act node runs at most 3
\* times and the think node at most 3 times, the third act is followed by
\* finish, and whatever the model replies the invocation goes on to finish
\* and END (it does not end by an exception while every model and tool call
\* returns).
StepLimitedAndAlwaysFinishes ==
    /\ StepLimitHolds
    /\ ~FailedWithoutExternalError

\* The action names a tool of the table and asks for it.
IsWhitelistedToolAction(a) == a.dict /\ a.type = "tool" /\ a.tool \in TOOLS

\* The act node ran only on whitelisted tool actions and every lookup in
\* the table found its tool.
ActOnlyOnWhitelistedTool ==
    /\ \A a \in robs.actedOn : IsWhitelistedToolAction(a)
    /\ ~robs.lookupMissed

\* C24: the act node runs only when the latest model action has type "tool"
\* and names a tool of the whitelist table, so act never looks up a tool
\* absent from the table; every other action the think node produces is
\* routed to finish.
OnlyWhitelistedToolActsOthersFinish ==
    /\ ActOnlyOnWhitelistedTool
    /\ \A r \in robs.routed :
          r[2] = (IF IsWhitelistedToolAction(r[1]) THEN "act" ELSE "finish")

\* The action carries the answer: type "final" and a non-empty answer.
CarriesAnswer(a) == a.type = "final" /\ a.answer # <<>>

\* What the finish node did in an invocation that reached END: it ran once,
\* set done, appended the final answer last, and called the model once
\* exactly when the action it found carried no answer.
FinishedOnceWithAnswerLast ==
    rpc = "end" =>
        /\ robs.finishes = 1
        /\ rstate.done
        /\ \E a \in robs.finishOn :
              /\ robs.finishOn = {a}
              /\ robs.finishCalls = (IF CarriesAnswer(a) THEN 0 ELSE 1)
              /\ rstate.messages[Len(rstate.messages)] \in
                    (IF CarriesAnswer(a) THEN {AIMessage(a.answer)}
                     ELSE {AIMessage(r) : r \in FinishReplies})
              /\ robs.viaLimit => a.type = "tool" /\ robs.finishCalls = 1

\* C25: the finish node runs exactly once per invocation, sets done = true
\* and appends the final answer as the last message; it makes one more
\* model call if and only if the latest model action is not a type-final
\* action with a non-empty answer, in particular when finish is reached
\* through the step limit with a pending tool action.
FinishRunsOncePerInvocation ==
    /\ FinishedOnceWithAnswerLast
    /\ rpc = "failed" /\ ~robs.extRaised => robs.finishes = 1
    /\ robs.finishes <= 1

\* C26: in the script that keeps last_tool_result, every observation the
\* think node puts into the model prompt was obtained by an act step of the
\* same invocation; none is left over from an earlier invocation on the
\* thread.
InjectedObservationsAreFromThisInvocation ==
    \A o \in robs.injected : o.inv = rinv

\* ------------------------------------------------------ claims, story flow
\* The agents called so far, in call order.
AgentsCalled == [i \in DOMAIN fcalls |-> fcalls[i][1]]

\* C27: the three agents of the story flow run in the order outline,
\* checker, story; the story agent is called only if the checker's parsed
\* verdict has good_quality and is_martial_arts both true, and when either
\* flag is false the flow stops without any story call.
StoryOnlyAfterApprovingVerdict ==
    /\ AgentsCalled = SubSeq(FlowAgents, 1, Len(fcalls))
    /\ FlowAgents[3] \in {fcalls[i][1] : i \in DOMAIN fcalls} =>
          /\ flocals.checker_obj.ok
          /\ flocals.checker_obj.good_quality
          /\ flocals.checker_obj.is_martial_arts
    /\ /\ flocals.checker_obj.ok
       /\ ~flocals.checker_obj.good_quality
             \/ ~flocals.checker_obj.is_martial_arts
       => /\ fpc = "exited"
          /\ AgentsCalled = SubSeq(FlowAgents, 1, 2)

\* A verdict wrapped in a Markdown fence approved the outline and the story
\* was written from that outline.
StoryWrittenAfterFencedApproval ==
    /\ fpc = "done"
    /\ flocals.outline_checker_result # flocals.s
    /\ flocals.s = <<"{gq:true,ma:true}">>
    /\ fcalls[3] = <<FlowAgents[3], flocals.outline_result>>
    /\ flocals.final_result # NoOutput

\* ------------------------------------------------ claims, swarm file keys
\* The files whose consensus stage builds a prompt from parallel_results.
PromptBuildingFiles == SwarmFiles \ {"mock"}

\* The set of a sequence's elements.
Range(s) == {s[i] : i \in DOMAIN s}

StepNow == Get(state, "step", 0)

\* C29: the step counter advances by exactly one per request in both
\* pipelines: it is 0 until the classify stage (supervisor) or the fan-out
\* stage (swarm) has run and 1 from then on; assign and consensus leave it
\* alone, so a request started with step = 0 ends with step = 1 on the
\* DISPATCH path, on the FINISH path and on the swarm path.
StepAdvancesOncePerRequest ==
    /\ pc \in {"classify", "parallel", "gather"} => StepNow = 0
    /\ pc \in {"assign", "consensus", "returned"} => StepNow = 1
    /\ pc = "failed" =>
          StepNow = (IF obs.failedAt \in {"assign", "consensus"} THEN 1 ELSE 0)

\* The second request on a thread took the FINISH route and ended with
\* step = 1, although the thread's checkpoint already held step = 1.
SecondRequestOnFinishRouteEndsAtStepOne ==
    /\ reqNo = 2
    /\ pc = "returned"
    /\ pipeline = "supervisor"
    /\ obs.routed = "finish"
    /\ Get(obs.loaded, "step", 0) = 1
    /\ StepNow = 1

\* C30: in the LangGraph-built supervisor graphs the fallback branch of the
\* assign stage (worker_result = the fixed apology) is unreachable:
\* whenever assign is about to run or has run, assigned_worker equals
\* task_type and is one of the four labels, and the result it stores is
\* never the apology.
AssignFallbackUnreachableInLangGraph ==
    /\ variant \in LangGraphVariants
    /\ pipeline = "supervisor"
    /\ pc = "assign" \/ Ran("assign")
    => /\ Get(state, "assigned_worker", "analysis")
            = Get(state, "task_type", "")
       /\ Get(state, "assigned_worker", "analysis") \in RouteLabels
       /\ obs.calls[Get(state, "assigned_worker", "analysis")]
            = (IF Ran("assign") THEN 1 ELSE 0)
       /\ Get(state, "worker_result", EmptyText) # Apology

\* A thread whose checkpoint held a label outside the four (left by a
\* request that took the FINISH route) served a second request that was
\* classified anew and dispatched to the creative worker.
DispatchAfterUnknownLabelOnThread ==
    /\ variant \in LangGraphVariants
    /\ pipeline = "supervisor"
    /\ reqNo = 2
    /\ Get(obs.loaded, "assigned_worker", "") \notin RouteLabels
    /\ Get(obs.loaded, "assigned_worker", "") # ""
    /\ Ran("assign")
    /\ pc = "returned"
    /\ Get(state, "assigned_worker", "") = "creative"

====
